---- MODULE Spec2Model ----
(***************************************************************************)
(* Model of the mitigation service: the Policy engine (core/policy.py),    *)
(* its redactors (core/redactors.py) and semantic blocker                  *)
(* (core/semantic.py), and the two gateways of server.py that share one    *)
(* Policy instance and one history deque.                                  *)
(*                                                                         *)
(* Text is a sequence of one-character strings, so len(), lower(), the     *)
(* substring test and the regular expressions are computed on characters.  *)
(* A JSON object is a function from its keys; a JSON value that is not an  *)
(* object where the code expects one carries the key "json_type".          *)
(***************************************************************************)
EXTENDS Integers, Sequences, FiniteSets, TLC

\* ------------------------------------------------------------------ text

LowerLetters ==
    <<"a","b","c","d","e","f","g","h","i","j","k","l","m",
      "n","o","p","q","r","s","t","u","v","w","x","y","z">>

UpperLetters ==
    <<"A","B","C","D","E","F","G","H","I","J","K","L","M",
      "N","O","P","Q","R","S","T","U","V","W","X","Y","Z">>

Range(s) == {s[i] : i \in DOMAIN s}

Digits == {"0","1","2","3","4","5","6","7","8","9"}

Letters == Range(LowerLetters) \cup Range(UpperLetters)

\* str.lower() on one character
LowerChar(c) ==
    IF c \in Range(UpperLetters)
    THEN LowerLetters[CHOOSE i \in DOMAIN UpperLetters : UpperLetters[i] = c]
    ELSE c

\* str.lower()
Lower(text) == [i \in DOMAIN text |-> LowerChar(text[i])]

\* needle in hay (Python substring test; the empty string is in every string)
Contains(hay, needle) ==
    \E i \in 0..(Len(hay) - Len(needle)) :
        SubSeq(hay, i + 1, i + Len(needle)) = needle

\* \w of the re module
IsWordChar(c) == c \in Letters \cup Digits \cup {"_"}

WordAt(text, i) == i >= 1 /\ i <= Len(text) /\ IsWordChar(text[i])

\* \b just before the character at index i (i = Len + 1: at the end)
WordBoundary(text, i) == WordAt(text, i - 1) # WordAt(text, i)

\* the number of consecutive characters of class cls starting at index i
RunLen(text, i, cls) ==
    IF i > Len(text) THEN 0
    ELSE LET Stops == {j \in i..(Len(text) + 1) : j > Len(text) \/ text[j] \notin cls}
         IN  (CHOOSE j \in Stops : \A k \in Stops : j <= k) - i

\* ------------------------------------------------------------- redactors
\* Each XMatchEnd(text, i) is the index just past the regular expression's
\* match starting at index i, or 0 when it does not match there.

EmailLocalChars == Letters \cup Digits \cup {"_", ".", "+", "-"}
EmailDomainChars == Letters \cup Digits \cup {"-"}
EmailTldChars == Letters \cup Digits \cup {"-", "."}

\* [a-zA-Z0-9_.+-]+@[a-zA-Z0-9-]+\.[a-zA-Z0-9-.]+
EmailMatchEnd(text, i) ==
    LET n == RunLen(text, i, EmailLocalChars)
        at == i + n
        m == RunLen(text, at + 1, EmailDomainChars)
        dot == at + 1 + m
        t == RunLen(text, dot + 1, EmailTldChars)
    IN  IF /\ n >= 1
           /\ at <= Len(text) /\ text[at] = "@"
           /\ m >= 1
           /\ dot <= Len(text) /\ text[dot] = "."
           /\ t >= 1
        THEN dot + 1 + t
        ELSE 0

PhoneSeparators == {"-", "."}

\* \b\d{3}[-.]?\d{3}[-.]?\d{4}\b
PhoneMatchEnd(text, i) ==
    LET IsDigits(from, k) == RunLen(text, from, Digits) >= k
        Sep(at) == IF at <= Len(text) /\ text[at] \in PhoneSeparators THEN 1 ELSE 0
        g2 == i + 3 + Sep(i + 3)
        g3 == g2 + 3 + Sep(g2 + 3)
        end == g3 + 4
    IN  IF /\ WordBoundary(text, i)
           /\ IsDigits(i, 3)
           /\ IsDigits(g2, 3)
           /\ IsDigits(g3, 4)
           /\ WordBoundary(text, end)
        THEN end
        ELSE 0

SecretPrefix == <<"S","E","C","R","E","T","{">>

\* SECRET\{[^}]*\}
SecretMatchEnd(text, i) ==
    LET body == i + Len(SecretPrefix)
        Closing == {j \in body..Len(text) : text[j] = "}"}
    IN  IF /\ body - 1 <= Len(text)
           /\ SubSeq(text, i, body - 1) = SecretPrefix
           /\ Closing # {}
        THEN (CHOOSE j \in Closing : \A k \in Closing : j <= k) + 1
        ELSE 0

CardSeparators == {" ", "-"}
CardMinDigits == 13
CardMaxDigits == 16

\* (?:\d[ -]*?){13,16}\b once the k-th digit has been consumed and pos is the
\* index just past it. The lazy [ -]*? first takes nothing: then one more
\* group is tried (greedy count) and, failing that, the loop is left if k is
\* in range and pos is a word boundary. Only when both fail do the separators
\* grow, and between two separators nothing but growing further can succeed.
RECURSIVE CardAfterDigit(_, _, _)
CardAfterDigit(text, pos, k) ==
    LET run == RunLen(text, pos, CardSeparators)
        next == pos + run
        IsDigitAt(j) == j <= Len(text) /\ text[j] \in Digits
    IN  IF run = 0
        THEN LET more == IF k < CardMaxDigits /\ IsDigitAt(pos)
                         THEN CardAfterDigit(text, pos + 1, k + 1)
                         ELSE 0
             IN  IF more # 0 THEN more
                 ELSE IF k >= CardMinDigits /\ WordBoundary(text, pos) THEN pos
                 ELSE 0
        ELSE IF k >= CardMinDigits THEN pos
        ELSE IF IsDigitAt(next) THEN CardAfterDigit(text, next + 1, k + 1)
        ELSE 0

\* \b(?:\d[ -]*?){13,16}\b
CardMatchEnd(text, i) ==
    IF WordBoundary(text, i) /\ i <= Len(text) /\ text[i] \in Digits
    THEN CardAfterDigit(text, i + 1, 1)
    ELSE 0

MatchEnd(name, text, i) ==
    CASE name = "Email" -> EmailMatchEnd(text, i)
      [] name = "Phone" -> PhoneMatchEnd(text, i)
      [] name = "Secret" -> SecretMatchEnd(text, i)
      [] name = "CreditCard" -> CardMatchEnd(text, i)

Placeholder(name) ==
    CASE name = "Email" -> <<"<","E","M","A","I","L",">">>
      [] name = "Phone" -> <<"<","P","H","O","N","E",">">>
      [] name = "Secret" -> <<"<","S","E","C","R","E","T",">">>
      [] name = "CreditCard" -> <<"<","C","A","R","D",">">>

\* re.sub(pattern, placeholder, text): leftmost matches, left to right, not
\* overlapping; the text between the matches is copied.
RECURSIVE ReSubFrom(_, _, _)
ReSubFrom(name, text, i) ==
    LET Starts == {j \in i..Len(text) : MatchEnd(name, text, j) # 0}
    IN  IF Starts = {} THEN SubSeq(text, i, Len(text))
        ELSE LET start == CHOOSE j \in Starts : \A k \in Starts : j <= k
             IN  SubSeq(text, i, start - 1)
                     \o Placeholder(name)
                     \o ReSubFrom(name, text, MatchEnd(name, text, start))

\* <Name>Redactor().redact_text(text)
redact_text(name, text) == ReSubFrom(name, text, 1)

\* ------------------------------------------------------------ JSON values

\* dict.get(key, default)
Get(d, key, default) == IF key \in DOMAIN d THEN d[key] ELSE default

\* a JSON value that is not an object (a list, a number, ...)
NotAnObject(type) == [json_type |-> type]

IsDict(v) == "json_type" \notin DOMAIN v

EmptyDict == [key \in {} |-> TRUE]

\* Python's None
None == [none |-> TRUE]

IsNone(v) == "none" \in DOMAIN v

\* an exception leaving a call
Raised(exception) == [raised |-> exception]

IsRaised(v) == "raised" \in DOMAIN v

\* ------------------------------------------------------- semantic blocker

\* util.cos_sim of the embeddings of text and phrase, in hundredths. The
\* embedding model is an external collaborator: a fixed table stands for it.
cos_sim(text, phrase) ==
    IF Lower(text) = Lower(phrase) THEN 100
    ELSE IF Contains(Lower(text), Lower(phrase)) THEN 75
    ELSE 20

\* what the embedding provider does: sentence_transformers is missing or
\* loading the model raised (self.model is None); the model loads and
\* encodes; the model loads and its encode raises when a prompt is checked
ModelNone == "none"
ModelWorks == "works"
ModelRaises == "raises"

\* the providers with which a check returns, and all of them
Models == {ModelNone, ModelWorks}
AllModels == Models \cup {ModelRaises}

\* SemanticBlocker(banned_phrases, threshold) with the provider being model
SemanticBlocker(banned_phrases, threshold, model) ==
    [banned_phrases |-> banned_phrases,
     threshold |-> threshold,
     model |-> model]

MaxOf(S) == CHOOSE x \in S : \A y \in S : y <= x

\* the pair SemanticBlocker.check_blocking returns
Checked(is_blocked, score) == [is_blocked |-> is_blocked, score |-> score]

\* a check that also blocks a score equal to the threshold
check_blocking_at_threshold(blocker, text) ==
    IF blocker.model = ModelNone THEN Checked(FALSE, 0)
    ELSE IF blocker.model = ModelRaises THEN Raised("RuntimeError")
    ELSE LET best_match_score ==
                 MaxOf({cos_sim(text, blocker.banned_phrases[i]) :
                            i \in DOMAIN blocker.banned_phrases})
         IN  Checked(best_match_score >= blocker.threshold, best_match_score)

\* SemanticBlocker.check_blocking(text)
SemanticBlocker_check_blocking(blocker, text) ==
    IF blocker.model = ModelNone THEN Checked(FALSE, 0)
    ELSE IF blocker.model = ModelRaises THEN Raised("RuntimeError")
    ELSE LET best_match_score ==
                 MaxOf({cos_sim(text, blocker.banned_phrases[i]) :
                            i \in DOMAIN blocker.banned_phrases})
         IN  Checked(best_match_score > blocker.threshold, best_match_score)

\* ------------------------------------------------------------------ Policy

DEFAULT_MAX_CHARS == 200
DEFAULT_THRESHOLD == 60

Decision(action, prompt_out, reason) ==
    [action |-> action, prompt_out |-> prompt_out, reason |-> reason]

IsDecision(v) == "action" \in DOMAIN v

\* the reason strings, by their format and their formatted values
ReasonTooLong(max_prompt_chars) ==
    [text |-> "Prompt is too long. Max length is {} characters.",
     max_prompt_chars |-> max_prompt_chars]

ReasonKeywords(found_blocked_keywords) ==
    [text |-> "Contains banned keywords: {}",
     found_blocked_keywords |-> found_blocked_keywords]

ReasonSemantic(score) ==
    [text |-> "Semantic Policy Violation (Similarity: {:.2f})", score |-> score]

ReasonRedacted(affected_types) ==
    [text |-> "P.I.I. detected and redacted: {}", affected_types |-> affected_types]

ReasonSafe == [text |-> "Safe, no action required"]

\* the length check with >= in place of >
check_length_inclusive(rules, prompt) ==
    IF ~IsDict(rules) THEN Raised("AttributeError")
    ELSE LET max_prompt_chars == Get(rules, "max_prompt_chars", DEFAULT_MAX_CHARS)
         IN  IF Len(prompt) >= max_prompt_chars
             THEN Decision("block", prompt, ReasonTooLong(max_prompt_chars))
             ELSE None

\* _check_blocking, check 1: the length (reads self.rules)
check_length(rules, prompt) ==
    IF ~IsDict(rules) THEN Raised("AttributeError")
    ELSE LET max_prompt_chars == Get(rules, "max_prompt_chars", DEFAULT_MAX_CHARS)
         IN  IF Len(prompt) > max_prompt_chars
             THEN Decision("block", prompt, ReasonTooLong(max_prompt_chars))
             ELSE None

\* the keyword check stopping at the first keyword found
check_keywords_first(rules, prompt) ==
    IF ~IsDict(rules) THEN Raised("TypeError")
    ELSE IF "banned_keywords" \notin DOMAIN rules THEN Raised("KeyError")
    ELSE LET prompt_lower == Lower(prompt)
             IsFound(keyword) == Contains(prompt_lower, Lower(keyword))
             found_blocked_keywords == SelectSeq(rules["banned_keywords"], IsFound)
         IN  IF found_blocked_keywords # <<>>
             THEN Decision("block", prompt,
                           ReasonKeywords(<<Head(found_blocked_keywords)>>))
             ELSE None

\* _check_blocking, check 2: the banned keywords (reads self.rules again)
check_keywords(rules, prompt) ==
    IF ~IsDict(rules) THEN Raised("TypeError")
    ELSE IF "banned_keywords" \notin DOMAIN rules THEN Raised("KeyError")
    ELSE LET prompt_lower == Lower(prompt)
             IsFound(keyword) == Contains(prompt_lower, Lower(keyword))
             found_blocked_keywords == SelectSeq(rules["banned_keywords"], IsFound)
         IN  IF found_blocked_keywords # <<>>
             THEN Decision("block", prompt, ReasonKeywords(found_blocked_keywords))
             ELSE None

\* a block gate that looks for the keywords before the length
check_blocking_keywords_first(rules, prompt) ==
    LET by_keywords == check_keywords(rules, prompt)
    IN  IF IsNone(by_keywords) THEN check_length(rules, prompt) ELSE by_keywords

\* Policy._check_blocking
check_blocking(rules, prompt) ==
    LET by_length == check_length(rules, prompt)
    IN  IF IsNone(by_length) THEN check_keywords(rules, prompt) ELSE by_length

\* Policy._check_semantic_blocking once self.semantic_blocker is not None
check_semantic_call(semantic_blocker, prompt) ==
    IF IsNone(semantic_blocker) THEN Raised("AttributeError")
    ELSE LET result == SemanticBlocker_check_blocking(semantic_blocker, prompt)
         IN  IF IsRaised(result) THEN result
             ELSE IF result.is_blocked
             THEN Decision("block", prompt, ReasonSemantic(result.score))
             ELSE None

\* Policy._check_semantic_blocking
check_semantic_blocking(semantic_blocker, prompt) ==
    IF IsNone(semantic_blocker) THEN None
    ELSE check_semantic_call(semantic_blocker, prompt)

\* one pass of the loop of _apply_redaction over the redactor called name:
\* state is [current_prompt, affected_types]
redaction_step(name, state) ==
    LET redacted == redact_text(name, state.current_prompt)
    IN  [current_prompt |-> redacted,
         affected_types |-> IF redacted # state.current_prompt
                            THEN Append(state.affected_types, name)
                            ELSE state.affected_types]

RECURSIVE redaction_loop(_, _, _)
redaction_loop(redactors, k, state) ==
    IF k > Len(redactors) THEN state
    ELSE redaction_loop(redactors, k + 1, redaction_step(redactors[k], state))

\* a redact decision that carries the text as it came in
redaction_result_untransformed(prompt, state) ==
    IF state.current_prompt # prompt
    THEN Decision("redact", prompt, ReasonRedacted(state.affected_types))
    ELSE None

\* the end of _apply_redaction: a redact decision if the text changed
redaction_result(prompt, state) ==
    IF state.current_prompt # prompt
    THEN Decision("redact", state.current_prompt, ReasonRedacted(state.affected_types))
    ELSE None

\* Policy._apply_redaction; redactors is the dict's keys in insertion order
apply_redaction(redactors, prompt) ==
    redaction_result(prompt,
        redaction_loop(redactors, 1, [current_prompt |-> prompt, affected_types |-> <<>>]))

AllowDecision(prompt) == Decision("allow", prompt, ReasonSafe)

\* evaluate_prompt with the redaction pipeline ahead of the blocking checks
evaluate_prompt_redaction_first(p, prompt) ==
    LET block_result == check_blocking(p.rules, prompt)
        semantic_result == check_semantic_blocking(p.semantic_blocker, prompt)
        redact_result == apply_redaction(p.redactors, prompt)
    IN  IF ~IsNone(redact_result) THEN redact_result
        ELSE IF ~IsNone(block_result) THEN block_result
        ELSE IF ~IsNone(semantic_result) THEN semantic_result
        ELSE AllowDecision(prompt)

\* Policy.evaluate_prompt on the policy object p = [rules, redactors,
\* semantic_blocker], run without interruption: a decision or Raised(..)
evaluate_prompt(p, prompt) ==
    LET block_result == check_blocking(p.rules, prompt)
        semantic_result == check_semantic_blocking(p.semantic_blocker, prompt)
        redact_result == apply_redaction(p.redactors, prompt)
    IN  IF ~IsNone(block_result) THEN block_result
        ELSE IF ~IsNone(semantic_result) THEN semantic_result
        ELSE IF ~IsNone(redact_result) THEN redact_result
        ELSE AllowDecision(prompt)

\* ------------------------------------------------------------- load_policy

redactor_map ==
    << <<"redact_emails", "Email">>,
       <<"redact_phone_numbers", "Phone">>,
       <<"redact_secrets", "Secret">>,
       <<"redact_credit_cards", "CreditCard">> >>

\* the policy file on disk: absent, not JSON, or holding the JSON value doc
FileMissing == [file |-> "missing"]
FileInvalidJson == [file |-> "invalid_json"]
FileWith(doc) == [file |-> "json", doc |-> doc]

\* load_policy, lines 33-34: open, json.load, assign self.rules
load_rules(p, file) ==
    IF file.file = "missing" THEN Raised("FileNotFoundError")
    ELSE IF file.file = "invalid_json" THEN Raised("JSONDecodeError")
    ELSE [p EXCEPT !.rules = file.doc]

\* _configure_components, lines 81-82: read the toggles, self.redactors = {}
\* _configure_components without line 82: the old redactors stay registered
configure_start_keeping_redactors(p) ==
    IF ~IsDict(p.rules) THEN Raised("AttributeError") ELSE p

configure_start(p) ==
    IF ~IsDict(p.rules) THEN Raised("AttributeError")
    ELSE [p EXCEPT !.redactors = <<>>]

\* _configure_components, lines 91-93: the k-th pass of the loop
configure_redactor(p, k) ==
    LET config == Get(p.rules, "redaction_rules", EmptyDict)
    IN  IF ~IsDict(config) THEN Raised("AttributeError")
        ELSE IF Get(config, redactor_map[k][1], FALSE)
        THEN [p EXCEPT !.redactors = Append(@, redactor_map[k][2])]
        ELSE p

\* _configure_components, lines 96-102; model: what the embedding provider
\* does when SemanticBlocker is constructed and used
configure_semantic(p, model) ==
    LET semantic_config == Get(p.rules, "semantic_blocking", EmptyDict)
    IN  IF ~IsDict(semantic_config) THEN Raised("AttributeError")
        ELSE IF Get(semantic_config, "enabled", FALSE)
        THEN [p EXCEPT !.semantic_blocker =
                 SemanticBlocker(Get(semantic_config, "banned_phrases", <<>>),
                                 Get(semantic_config, "threshold", DEFAULT_THRESHOLD),
                                 model)]
        ELSE [p EXCEPT !.semantic_blocker = None]

\* the outcome of a call that ends: the policy object as it is left, and the
\* exception that left the call ("none": it returned)
Outcome(p, error) == [policy |-> p, error |-> error]

RECURSIVE configure_from(_, _, _)
configure_from(p, k, model) ==
    IF k > Len(redactor_map)
    THEN LET q == configure_semantic(p, model)
         IN  IF IsRaised(q) THEN Outcome(p, q.raised) ELSE Outcome(q, "none")
    ELSE LET q == configure_redactor(p, k)
         IN  IF IsRaised(q) THEN Outcome(p, q.raised)
             ELSE configure_from(q, k + 1, model)

\* Policy._configure_components, run without interruption
configure_components(p, model) ==
    LET q == configure_start(p)
    IN  IF IsRaised(q) THEN Outcome(p, q.raised)
        ELSE configure_from(q, 1, model)

\* Policy.load_policy, run without interruption
load_policy(p, file, model) ==
    LET q == load_rules(p, file)
    IN  IF IsRaised(q) THEN Outcome(p, q.raised)
        ELSE configure_components(q, model)

\* ------------------------------------------------------------------ inputs

\* the prompts the callers send
PromptHi == <<"h","i">>
PromptEmail == <<"a","@","b",".","c">>
PromptKillEmail == <<"K","i","L","l"," ","a","@","b",".","c">>
PromptLongEmail == <<"t","o","o"," ","l","o","n","g"," ","a","@","b",".","c">>

Prompts == {PromptHi, PromptEmail, PromptKillEmail, PromptLongEmail}

\* the documents policy.json may hold
DocA ==
    [banned_keywords |-> << <<"k","i","l","l">> >>,
     max_prompt_chars |-> 12,
     redaction_rules |-> [redact_emails |-> TRUE, redact_secrets |-> TRUE]]

DocB ==
    [banned_keywords |-> << <<"h","i">> >>,
     redaction_rules |-> [redact_emails |-> FALSE, redact_phone_numbers |-> TRUE],
     semantic_blocking |->
         [enabled |-> TRUE, banned_phrases |-> << <<"a","@","b",".","c">> >>]]

\* DocA with the semantic blocker on
DocC ==
    [banned_keywords |-> << <<"k","i","l","l">> >>,
     max_prompt_chars |-> 12,
     redaction_rules |-> [redact_emails |-> TRUE, redact_secrets |-> TRUE],
     semantic_blocking |->
         [enabled |-> TRUE, banned_phrases |-> << <<"h","i","!">> >>, threshold |-> 90]]

\* no banned_keywords key
DocNoKeywords ==
    [max_prompt_chars |-> 12,
     redaction_rules |-> [redact_emails |-> TRUE]]

\* a JSON list: valid JSON, not an object
DocList == NotAnObject("array")

\* redaction_rules is a number
DocBadRedaction ==
    [banned_keywords |-> << <<"h","i">> >>,
     redaction_rules |-> NotAnObject("number")]

\* semantic_blocking is a number
DocBadSemantic ==
    [banned_keywords |-> << <<"h","i">> >>,
     redaction_rules |-> [redact_phone_numbers |-> TRUE],
     semantic_blocking |-> NotAnObject("number")]

Docs == {DocA, DocB, DocNoKeywords, DocList, DocBadRedaction, DocBadSemantic}

PolicyFiles == {FileMissing, FileInvalidJson} \cup {FileWith(doc) : doc \in Docs}

UserOne == <<"u","1">>
UserTwo == <<"u","2">>

\* the bodies of POST /mitigate: bytes that are not JSON, or a JSON value
BodyInvalidJson == [json |-> "invalid"]
BodyNull == [json |-> "null"]
BodyList == [json |-> "array"]
BodyObject(data) == [json |-> "object", data |-> data]

MalformedBodies ==
    {BodyInvalidJson, BodyNull, BodyList,
     BodyObject([user_id |-> UserOne]),
     BodyObject([prompt |-> <<>>, user_id |-> UserOne]),
     BodyObject([prompt |-> PromptHi]),
     BodyObject([prompt |-> PromptHi, user_id |-> <<>>])}

WellFormedBodies ==
    {BodyObject([prompt |-> p, user_id |-> UserOne]) : p \in Prompts}
        \cup {BodyObject([prompt |-> PromptHi, user_id |-> UserTwo, model |-> "m",
                         purpose |-> "p", headers |-> [trace |-> "t"]])}

Bodies == MalformedBodies \cup WellFormedBodies

\* the query of GET /history: no n, an n that int() rejects, or an integer
QueryAbsent == [n |-> "absent"]
QueryNotInteger == [n |-> "text"]
QueryInt(value) == [n |-> "int", value |-> value]

\* the lines sent to the ICAP port
Marker == <<"P","R","O","M","P","T","=">>
EmptyLine == <<"\r", "\n">>
LineWithMarker(prompt) == <<"R"," ">> \o Marker \o prompt \o <<"\r","\n">>
LineWithoutMarker(prompt) == prompt \o <<"\n">>

IcapLines == {EmptyLine, LineWithoutMarker(PromptHi), LineWithMarker(PromptKillEmail)}

\* ------------------------------------------------------------------ server

HISTORY_MAXLEN == 100
DEFAULT_HISTORY_LIMIT == 20

QueryInts == {-1, 0, 1, 2, DEFAULT_HISTORY_LIMIT + 1, HISTORY_MAXLEN + 1}

Queries == {QueryAbsent, QueryNotInteger} \cup {QueryInt(v) : v \in QueryInts}

\* a list in place of the deque: append never evicts
deque_append_unbounded(history, entry) == Append(history, entry)

\* an append that skips an entry equal to the newest one
deque_append_distinct(history, entry) ==
    IF history # <<>> /\ history[Len(history)] = entry
    THEN history
    ELSE IF Len(history) >= HISTORY_MAXLEN
    THEN Append(Tail(history), entry)
    ELSE Append(history, entry)

\* deque(maxlen=HISTORY_MAXLEN).append(entry)
deque_append(history, entry) ==
    IF Len(history) >= HISTORY_MAXLEN
    THEN Append(Tail(history), entry)
    ELSE Append(history, entry)

\* an entry that keeps the text as the decision left it
log_entry_of_prompt_out(user_id, prompt, policy_decision) ==
    [user_id |-> user_id,
     prompt_in |-> policy_decision.prompt_out,
     action |-> policy_decision.action,
     reason |-> policy_decision.reason]

\* the entry _log_to_history builds (its timestamp, read from the clock, is
\* left out)
log_entry(user_id, prompt, policy_decision) ==
    [user_id |-> user_id,
     prompt_in |-> prompt,
     action |-> policy_decision.action,
     reason |-> policy_decision.reason]

\* seq[-n:] for n > 0
LastN(seq, n) ==
    IF n >= Len(seq) THEN seq ELSE SubSeq(seq, Len(seq) - n + 1, Len(seq))

\* do_GET, lines 43-47: int(query_params.get("n", ["20"])[0]), 20 on ValueError
parse_limit(query) ==
    IF query.n = "int" THEN query.value ELSE DEFAULT_HISTORY_LIMIT

\* do_GET as its comment on line 52 has it: everything for a limit of 0 or less
history_response_everything(history, query) ==
    LET limit == parse_limit(query)
    IN  IF limit > 0 THEN LastN(history, limit) ELSE history

\* do_GET, lines 50-56
history_response(history, query) ==
    LET limit == parse_limit(query)
        full_history == history
    IN  IF limit > 0
        THEN LastN(full_history, limit)
        ELSE LastN(full_history, DEFAULT_HISTORY_LIMIT)

\* a connection that is closed with nothing written to it
NoResponse == [no_response |-> TRUE]

HttpResponse(status, body) == [status |-> status, body |-> body]

IsHttpStatus(response, status) ==
    "status" \in DOMAIN response /\ response.status = status

\* _get_json_body: None after answering 400, or the parsed value
get_json_body(body) ==
    CASE body.json = "invalid" -> HttpResponse(400, [error |-> "Invalid JSON"])
      [] body.json = "null" -> None
      [] body.json = "array" -> NotAnObject("array")
      [] body.json = "object" -> body.data

\* not data.get(key): the key is absent (None) or holds the empty string
IsFalsy(data, key) == key \notin DOMAIN data \/ data[key] = <<>>

\* a handler that turns away the requests naming a model
mitigate_decision_by_model(p, data, log) ==
    IF "model" \in DOMAIN data
    THEN Decision("block", data["prompt"], ReasonKeywords(<<data["model"]>>))
    ELSE evaluate_prompt(p, data["prompt"])

\* handle_mitigate, lines 70-84: the decision for the body data, p being the
\* policy object and log the history when the request arrives; model,
\* purpose and headers are read into locals no one uses
mitigate_decision(p, data, log) ==
    evaluate_prompt(p, data["prompt"])

\* handle_mitigate, lines 65-75: the response that ends the request before
\* evaluation (NoResponse: return with nothing sent, or an exception that
\* leaves the handler), or None when prompt and user_id are accepted
mitigate_rejection(body) ==
    LET data == get_json_body(body)
    IN  IF body.json = "invalid" THEN data
        ELSE IF IsNone(data) THEN NoResponse
        ELSE IF ~IsDict(data) THEN NoResponse
        ELSE IF IsFalsy(data, "prompt") \/ IsFalsy(data, "user_id")
        THEN HttpResponse(400, [error |-> "Missing required fields: prompt and user_id"])
        ELSE None

Whitespace == {" ", "\t", "\r", "\n"}

RECURSIVE Strip(_)
\* bytes.strip()
Strip(text) ==
    IF text = <<>> THEN text
    ELSE IF Head(text) \in Whitespace THEN Strip(Tail(text))
    ELSE IF text[Len(text)] \in Whitespace THEN Strip(SubSeq(text, 1, Len(text) - 1))
    ELSE text

\* MockICAPHandler.handle, lines 163-168: the text after the first "PROMPT=",
\* or the whole line
extract_prompt(data) ==
    IF Contains(data, Marker)
    THEN LET Starts == {i \in 1..(Len(data) - Len(Marker) + 1) :
                            SubSeq(data, i, i + Len(Marker) - 1) = Marker}
             first == CHOOSE i \in Starts : \A j \in Starts : i <= j
         IN  SubSeq(data, first + Len(Marker), Len(data))
    ELSE data

ICAP_USER == <<"i","c","a","p","_","c","l","i","e","n","t">>

IcapAllow == [line |-> "ICAP/1.0 204 No Content"]
IcapModified(prompt_out) == [line |-> "ICAP/1.0 200 OK", body |-> prompt_out]
IcapError == [line |-> "500 Internal Server Error"]

\* a handler that sends the text only when it was redacted
icap_response_redact_only(decision) ==
    IF decision.action = "redact" THEN IcapModified(decision.prompt_out) ELSE IcapAllow

\* MockICAPHandler.handle, lines 178-183
icap_response(decision) ==
    IF decision.action = "allow" THEN IcapAllow ELSE IcapModified(decision.prompt_out)

\* ------------------------------------------------------------------- state

VARIABLES
    phase,      \* "boot": server.py is being imported; "serving"; "exited"
    policy,     \* RequestHandler.policy: [rules, redactors, semantic_blocker]
    history,    \* RequestHandler.history, oldest entry first
    http,       \* the HTTP server thread (one request at a time)
    icap,       \* the main thread, serving the ICAP port (one at a time)
    accepted,   \* ghost: the policy object as the last load_policy call that
                \* returned left it, and which call that was
    appended,   \* ghost: every entry ever appended to history, in order
    evaluated,  \* ghost: the evaluate_prompt calls that returned a decision
    budget      \* how many more reloads and evaluations are to come

vars == <<phase, policy, history, http, icap, accepted, appended, evaluated, budget>>

\* Policy.__init__, lines 23-25
BlankPolicy == [rules |-> EmptyDict, redactors |-> <<>>, semantic_blocker |-> None]

Accepted(p, by) == [policy |-> p, by |-> by]

HttpIdle ==
    [pc |-> "idle", request |-> "none", input |-> None,
     prompt |-> <<>>, user_id |-> <<>>, result |-> None, response |-> None,
     full_history |-> <<>>, appended_before |-> 0, k |-> 0, model |-> ModelNone,
     before |-> None, target |-> None, under |-> None]

IcapIdle ==
    [pc |-> "idle", prompt |-> <<>>, result |-> None, response |-> None,
     current_prompt |-> <<>>, affected_types |-> <<>>,
     iter_live |-> FALSE, iter_dict |-> <<>>, iter_size |-> 0, iter_pos |-> 0,
     snapshots |-> {}, tainted |-> FALSE, overlapped |-> FALSE]

\* the state when server.py starts to be imported
InitWith(requests) ==
    /\ phase = "boot"
    /\ policy = BlankPolicy
    /\ history = <<>>
    /\ http = HttpIdle
    /\ icap = IcapIdle
    /\ accepted = None
    /\ appended = <<>>
    /\ evaluated = 0
    /\ budget = requests

ReloadPcs == {"configure_start", "configure_redactor", "configure_semantic"}

\* the ICAP thread is inside evaluate_prompt
IcapEvaluating ==
    icap.pc \in {"check_keywords", "semantic_test", "semantic_call",
                 "redact_iter", "redact_next"}

\* ----------------------------------------------------------------- startup

\* server.py line 18, policy = Policy(): the load at import. An exception
\* ends the process before either server is created.
Startup(file, model) ==
    /\ phase = "boot"
    /\ LET out == load_policy(policy, file, model)
       IN  /\ policy' = out.policy
           /\ IF out.error = "none"
              THEN /\ phase' = "serving"
                   /\ accepted' = Accepted(out.policy, "startup")
              ELSE /\ phase' = "exited"
                   /\ UNCHANGED accepted
    /\ UNCHANGED <<history, http, icap, appended, evaluated, budget>>

\* ------------------------------------------------------------ POST /reload

\* handle_reload, lines 104-105: the 500 answer; before is the policy object
\* as it was when the request began (ghost)
ReloadFailed(before, error) ==
    [HttpIdle EXCEPT !.pc = "responded", !.request = "reload", !.before = before,
                     !.response = HttpResponse(500, [message |-> "Failed to reload policy",
                                                      error |-> error])]

\* _configure_components between two assignments to the policy object: from
\* pass k of the loop on, the passes whose toggle is off assign nothing, and
\* reading the toggles or the semantic configuration of something that is
\* not a dict raises. The next assignment, or the exception.
RECURSIVE next_assignment(_, _)
next_assignment(p, k) ==
    IF k <= Len(redactor_map)
    THEN LET config == Get(p.rules, "redaction_rules", EmptyDict)
         IN  IF ~IsDict(config) THEN Raised("AttributeError")
             ELSE IF Get(config, redactor_map[k][1], FALSE)
             THEN [pc |-> "configure_redactor", k |-> k]
             ELSE next_assignment(p, k + 1)
    ELSE IF ~IsDict(Get(p.rules, "semantic_blocking", EmptyDict))
    THEN Raised("AttributeError")
    ELSE [pc |-> "configure_semantic", k |-> 0]

\* the HTTP thread after an assignment of pass k - 1 of _configure_components
ReloadGoesOn(state, p, k) ==
    LET next == next_assignment(p, k)
    IN  IF IsRaised(next)
        THEN ReloadFailed(state.before, next.raised)
        ELSE [state EXCEPT !.pc = next.pc, !.k = next.k]

\* ghost bookkeeping of an evaluation on the ICAP thread when a reload that
\* will leave the policy object as target begins
IcapSeesReload(target) ==
    IF ~IcapEvaluating THEN icap
    ELSE IF target.error = "none"
    THEN [icap EXCEPT !.snapshots = @ \cup {Accepted(target.policy, "reload")},
                      !.overlapped = TRUE]
    ELSE IF target.policy = policy THEN icap
    ELSE [icap EXCEPT !.tainted = TRUE, !.overlapped = TRUE]

\* handle_reload -> load_policy, lines 33-36 and 81: the file is read (whatever
\* it holds at that moment), self.rules is assigned, and the new rules' .get
\* is looked up
HttpReloadOpen(file, model) ==
    /\ phase = "serving"
    /\ http.pc \in {"idle", "accepted"}
    /\ budget > 0
    /\ budget' = budget - 1
    /\ LET loaded == load_rules(policy, file)
           target == load_policy(policy, file, model)
       IN  /\ IF IsRaised(loaded)
              THEN /\ http' = ReloadFailed(policy, loaded.raised)
                   /\ UNCHANGED policy
              ELSE /\ policy' = loaded
                   /\ http' = IF IsDict(loaded.rules)
                              THEN [HttpIdle EXCEPT !.pc = "configure_start",
                                                    !.request = "reload",
                                                    !.model = model,
                                                    !.before = policy,
                                                    !.target = target]
                              ELSE ReloadFailed(policy, "AttributeError")
           /\ icap' = IcapSeesReload(target)
    /\ UNCHANGED <<phase, history, accepted, appended, evaluated>>

\* _configure_components, line 82: self.redactors = {}. The old dict stays as
\* it is: an iteration over it that is under way goes on over its contents.
HttpConfigureStart ==
    /\ http.pc = "configure_start"
    /\ LET q == configure_start(policy)
       IN  /\ policy' = q
           /\ http' = ReloadGoesOn(http, q, 1)
    /\ icap' = IF icap.iter_live
               THEN [icap EXCEPT !.iter_live = FALSE, !.iter_dict = policy.redactors]
               ELSE icap
    /\ UNCHANGED <<phase, history, accepted, appended, evaluated, budget>>

\* _configure_components, line 93: self.redactors[name] = cls() in pass k
HttpConfigureRedactor ==
    /\ http.pc = "configure_redactor"
    /\ LET q == configure_redactor(policy, http.k)
       IN  /\ policy' = q
           /\ http' = ReloadGoesOn(http, q, http.k + 1)
    /\ UNCHANGED <<phase, history, icap, accepted, appended, evaluated, budget>>

\* _configure_components, lines 97-105: self.semantic_blocker is assigned;
\* load_policy returns and handle_reload answers 200
HttpConfigureSemantic ==
    /\ http.pc = "configure_semantic"
    /\ LET q == configure_semantic(policy, http.model)
       IN  /\ policy' = q
           /\ accepted' = Accepted(q, "reload")
    /\ http' = [HttpIdle EXCEPT
                   !.pc = "responded", !.request = "reload",
                   !.response = HttpResponse(200,
                                    [message |-> "Policy reloaded successfully"])]
    /\ UNCHANGED <<phase, history, icap, appended, evaluated, budget>>

\* ---------------------------------------------------------- POST /mitigate

\* ghost: the accepted policy object an evaluation that starts now runs
\* under, or None when the object is not as a completed load left it
Under == IF policy = accepted.policy THEN accepted ELSE None

\* handle_mitigate, lines 65-84. Only this thread assigns the policy
\* object's attributes, so its own evaluate_prompt runs on an object that
\* does not change meanwhile: the lines up to the decision are one step.
HttpMitigate(body) ==
    /\ phase = "serving"
    /\ http.pc \in {"idle", "accepted"}
    /\ LET rejection == mitigate_rejection(body)
           mitigate == [HttpIdle EXCEPT !.request = "mitigate", !.input = body]
       IN  IF ~IsNone(rejection)
           THEN /\ http' = [mitigate EXCEPT !.pc = "responded", !.response = rejection]
                /\ UNCHANGED <<evaluated, budget>>
           ELSE /\ budget > 0
                /\ budget' = budget - 1
                /\ LET prompt == body.data["prompt"]
                       policy_decision == mitigate_decision(policy, body.data, history)
                       called == [mitigate EXCEPT !.prompt = prompt,
                                                  !.user_id = body.data["user_id"],
                                                  !.result = policy_decision,
                                                  !.under = Under]
                   IN  IF IsRaised(policy_decision)
                       THEN /\ http' = [called EXCEPT !.pc = "responded",
                                                      !.response = NoResponse]
                            /\ UNCHANGED evaluated
                       ELSE /\ http' = [called EXCEPT !.pc = "log"]
                            /\ evaluated' = evaluated + 1
    /\ UNCHANGED <<phase, policy, history, icap, accepted, appended>>

\* handle_mitigate, line 87 -> _log_to_history
HttpLog ==
    /\ http.pc = "log"
    /\ LET entry == log_entry(http.user_id, http.prompt, http.result)
       IN  /\ history' = deque_append(history, entry)
           /\ appended' = Append(appended, entry)
    /\ http' = [http EXCEPT !.pc = "respond"]
    /\ UNCHANGED <<phase, policy, icap, accepted, evaluated, budget>>

\* handle_mitigate, lines 90-97
HttpRespond ==
    /\ http.pc = "respond"
    /\ http' = [http EXCEPT
                   !.pc = "responded",
                   !.response = HttpResponse(200,
                                    [action |-> http.result.action,
                                     prompt_out |-> http.result.prompt_out,
                                     reason |-> http.result.reason,
                                     user_id |-> http.user_id])]
    /\ UNCHANGED <<phase, policy, history, icap, accepted, appended, evaluated, budget>>

\* ------------------------------------------------------------ GET /history

\* do_GET, lines 39-50: the limit is parsed and full_history = list(self.history)
\* copies the deque
HttpHistory(query) ==
    /\ phase = "serving"
    /\ http.pc \in {"idle", "accepted"}
    /\ http' = [HttpIdle EXCEPT !.pc = "history_copied", !.request = "history",
                                !.input = query, !.full_history = history,
                                !.appended_before = Len(appended)]
    /\ UNCHANGED <<phase, policy, history, icap, accepted, appended, evaluated, budget>>

\* do_GET, lines 53-58: the slice of the copy is sent
HttpHistoryRespond ==
    /\ http.pc = "history_copied"
    /\ http' = [http EXCEPT
                   !.pc = "responded",
                   !.response = HttpResponse(200,
                                    [history |-> history_response(http.full_history,
                                                                  http.input)])]
    /\ UNCHANGED <<phase, policy, history, icap, accepted, appended, evaluated, budget>>

\* HTTPServer.serve_forever on the HTTP thread (server.py lines 208, 218):
\* the loop accepts one connection and runs its handler inline, which waits
\* for the request to arrive; the request actions go on from "accepted", or
\* from "idle" when the request arrives with the connection
HttpAccept ==
    /\ phase = "serving"
    /\ http.pc = "idle"
    /\ http' = [http EXCEPT !.pc = "accepted"]
    /\ UNCHANGED <<phase, policy, history, icap, accepted, appended, evaluated, budget>>

\* the request is over; the server thread takes the next one
HttpClose ==
    /\ http.pc = "responded"
    /\ http' = HttpIdle
    /\ UNCHANGED <<phase, policy, history, icap, accepted, appended, evaluated, budget>>

\* -------------------------------------------------------------------- ICAP

\* an exception inside handle: lines 187-189 write the 500 line
IcapFailed(state, raised) ==
    [state EXCEPT !.pc = "responded", !.result = raised, !.response = IcapError]

\* where evaluate_prompt goes on after a check returned result
IcapAfterCheck(state, result, next_pc) ==
    IF IsNone(result) THEN [state EXCEPT !.pc = next_pc]
    ELSE IF IsRaised(result) THEN IcapFailed(state, result)
    ELSE [state EXCEPT !.pc = "log", !.result = result]

\* ghost: one more evaluate_prompt call returned a decision
CountDecision(state) ==
    evaluated' = IF state.pc = "log" THEN evaluated + 1 ELSE evaluated

\* ghost: the complete policy objects an evaluation that starts now may run
\* under, and whether it starts on an object a failed load left or is leaving
\* (overlapped: a load assigns to the object while the evaluation runs)
SnapshotsNow ==
    {accepted} \cup
        (IF http.pc \in ReloadPcs /\ http.target.error = "none"
         THEN {Accepted(http.target.policy, "reload")}
         ELSE {})

TaintedNow ==
    IF http.pc \in ReloadPcs
    THEN http.before # accepted.policy \/ http.target.error # "none"
    ELSE policy # accepted.policy

\* handle, lines 155-171, as far as the length check of _check_blocking
IcapReceive(line) ==
    /\ phase = "serving"
    /\ icap.pc \in {"idle", "accepted"}
    /\ LET data == Strip(line)
       IN  IF data = <<>>
           THEN /\ icap' = [IcapIdle EXCEPT !.pc = "responded", !.response = NoResponse]
                /\ UNCHANGED <<evaluated, budget>>
           ELSE /\ budget > 0
                /\ budget' = budget - 1
                /\ LET prompt == extract_prompt(data)
                       started == [IcapIdle EXCEPT !.prompt = prompt,
                                                   !.snapshots = SnapshotsNow,
                                                   !.tainted = TaintedNow,
                                                   !.overlapped = http.pc \in ReloadPcs]
                       after == IcapAfterCheck(started,
                                    check_length(policy.rules, prompt), "check_keywords")
                   IN  icap' = after /\ CountDecision(after)
    /\ UNCHANGED <<phase, policy, history, http, accepted, appended>>

\* _check_blocking, lines 168-181
IcapCheckKeywords ==
    /\ icap.pc = "check_keywords"
    /\ LET after == IcapAfterCheck(icap, check_keywords(policy.rules, icap.prompt),
                                   "semantic_test")
       IN  icap' = after /\ CountDecision(after)
    /\ UNCHANGED <<phase, policy, history, http, accepted, appended, budget>>

\* _check_semantic_blocking, line 133
IcapSemanticTest ==
    /\ icap.pc = "semantic_test"
    /\ icap' = [icap EXCEPT !.pc = IF IsNone(policy.semantic_blocker)
                                   THEN "redact_iter"
                                   ELSE "semantic_call"]
    /\ UNCHANGED <<phase, policy, history, http, accepted, appended, evaluated, budget>>

\* a semantic check that gives up its provider once it has answered
IcapSemanticCallOnce ==
    /\ icap.pc = "semantic_call"
    /\ LET after == IcapAfterCheck(icap,
                        check_semantic_call(policy.semantic_blocker, icap.prompt),
                        "redact_iter")
       IN  icap' = after /\ CountDecision(after)
    /\ policy' = IF IsNone(policy.semantic_blocker) THEN policy
                 ELSE [policy EXCEPT !.semantic_blocker.model = ModelNone]
    /\ UNCHANGED <<phase, history, http, accepted, appended, budget>>

\* _check_semantic_blocking, lines 142-153: self.semantic_blocker is read again
IcapSemanticCall ==
    /\ icap.pc = "semantic_call"
    /\ LET after == IcapAfterCheck(icap,
                        check_semantic_call(policy.semantic_blocker, icap.prompt),
                        "redact_iter")
       IN  icap' = after /\ CountDecision(after)
    /\ UNCHANGED <<phase, policy, history, http, accepted, appended, budget>>

\* _apply_redaction, lines 109-113: the iterator over self.redactors.items()
IcapRedactIter ==
    /\ icap.pc = "redact_iter"
    /\ icap' = [icap EXCEPT !.pc = "redact_next",
                            !.current_prompt = icap.prompt,
                            !.affected_types = <<>>,
                            !.iter_live = TRUE,
                            !.iter_dict = <<>>,
                            !.iter_size = Len(policy.redactors),
                            !.iter_pos = 1]
    /\ UNCHANGED <<phase, policy, history, http, accepted, appended, evaluated, budget>>

\* _apply_redaction, lines 113-129 and evaluate_prompt, lines 68-76: the
\* iterator's next() (RuntimeError if the dict it iterates changed size),
\* one pass of the loop, and after the last pass the decision
IcapRedactNext ==
    /\ icap.pc = "redact_next"
    /\ LET dict == IF icap.iter_live THEN policy.redactors ELSE icap.iter_dict
           state == [current_prompt |-> icap.current_prompt,
                     affected_types |-> icap.affected_types]
           done == [icap EXCEPT !.iter_live = FALSE, !.iter_dict = <<>>,
                                !.iter_size = 0, !.iter_pos = 0,
                                !.current_prompt = <<>>, !.affected_types = <<>>]
       IN  IF Len(dict) # icap.iter_size
           THEN /\ icap' = IcapFailed(done, Raised("RuntimeError"))
                /\ UNCHANGED evaluated
           ELSE IF icap.iter_pos > Len(dict)
           THEN LET redact_result == redaction_result(icap.prompt, state)
                IN  /\ icap' = [done EXCEPT
                                   !.pc = "log",
                                   !.result = IF IsNone(redact_result)
                                              THEN AllowDecision(icap.prompt)
                                              ELSE redact_result]
                    /\ evaluated' = evaluated + 1
           ELSE LET after == redaction_step(dict[icap.iter_pos], state)
                IN  /\ icap' = [icap EXCEPT !.current_prompt = after.current_prompt,
                                            !.affected_types = after.affected_types,
                                            !.iter_pos = @ + 1]
                    /\ UNCHANGED evaluated
    /\ UNCHANGED <<phase, policy, history, http, accepted, appended, budget>>

\* handle, line 173 -> _log_to_history
IcapLog ==
    /\ icap.pc = "log"
    /\ LET entry == log_entry(ICAP_USER, icap.prompt, icap.result)
       IN  /\ history' = deque_append(history, entry)
           /\ appended' = Append(appended, entry)
    /\ icap' = [icap EXCEPT !.pc = "respond"]
    /\ UNCHANGED <<phase, policy, http, accepted, evaluated, budget>>

\* handle, lines 178-185
IcapRespond ==
    /\ icap.pc = "respond"
    /\ icap' = [icap EXCEPT !.pc = "responded", !.response = icap_response(icap.result)]
    /\ UNCHANGED <<phase, policy, history, http, accepted, appended, evaluated, budget>>

\* TCPServer.serve_forever on the main thread (server.py lines 212, 226):
\* the loop accepts one connection and runs handle inline, which waits in
\* readline (line 155)
IcapAccept ==
    /\ phase = "serving"
    /\ icap.pc = "idle"
    /\ icap' = [icap EXCEPT !.pc = "accepted"]
    /\ UNCHANGED <<phase, policy, history, http, accepted, appended, evaluated, budget>>

\* the connection is over; the server takes the next one
IcapClose ==
    /\ icap.pc = "responded"
    /\ icap' = IcapIdle
    /\ UNCHANGED <<phase, policy, history, http, accepted, appended, evaluated, budget>>

\* ---------------------------------------------------------- specifications

\* the steps of a reload after the file was read
Reloading == HttpConfigureStart \/ HttpConfigureRedactor \/ HttpConfigureSemantic

\* the steps of POST /mitigate after the decision
Mitigating == HttpLog \/ HttpRespond

\* the steps of the ICAP handler after the line was read
IcapHandling ==
    \/ IcapCheckKeywords
    \/ IcapSemanticTest
    \/ IcapSemanticCall
    \/ IcapRedactIter
    \/ IcapRedactNext
    \/ IcapLog
    \/ IcapRespond
    \/ IcapClose

MarkerLines == {LineWithMarker(p) : p \in Prompts}

\* Reloads against evaluations: any policy file at startup and at reload,
\* well-formed requests on both gateways.
MaxConfigRequests == 2

InitConfig == InitWith(MaxConfigRequests)

NextConfig ==
    \/ \E file \in PolicyFiles, model \in Models : Startup(file, model)
    \/ \E file \in PolicyFiles, model \in Models :
           HttpReloadOpen(file, model)
    \/ Reloading
    \/ \E body \in WellFormedBodies : HttpMitigate(body)
    \/ Mitigating
    \/ HttpClose
    \/ \E line \in MarkerLines : IcapReceive(line)
    \/ IcapHandling

SpecConfig == InitConfig /\ [][NextConfig]_vars

\* Requests against the history: the server has started with DocC and has
\* served some requests already, and takes any request but a reload.
MaxHistoryRequests == 2

ServedEarlier == {0, DEFAULT_HISTORY_LIMIT + 1, HISTORY_MAXLEN - 1, HISTORY_MAXLEN}

Started == load_policy(BlankPolicy, FileWith(DocC), ModelWorks).policy

\* the entries of the requests served earlier: PromptHi from UserOne over
\* HTTP and PromptEmail over ICAP, in turn
EarlierEntry(i) ==
    IF i % 2 = 1
    THEN log_entry(UserOne, PromptHi, evaluate_prompt(Started, PromptHi))
    ELSE log_entry(ICAP_USER, PromptEmail, evaluate_prompt(Started, PromptEmail))

InitHistory ==
    /\ phase = "serving"
    /\ policy = Started
    /\ \E served \in ServedEarlier :
           /\ history = [i \in 1..served |-> EarlierEntry(i)]
           /\ appended = history
           /\ evaluated = served
    /\ http = HttpIdle
    /\ icap = IcapIdle
    /\ accepted = Accepted(Started, "startup")
    /\ budget = MaxHistoryRequests

NextHistory ==
    \/ \E body \in Bodies : HttpMitigate(body)
    \/ Mitigating
    \/ \E query \in Queries : HttpHistory(query)
    \/ HttpHistoryRespond
    \/ HttpClose
    \/ \E line \in IcapLines : IcapReceive(line)
    \/ IcapHandling

SpecHistory == InitHistory /\ [][NextHistory]_vars

\* Evaluations of one prompt under one configuration: the documents and the
\* prompts of the boundary cases, every provider, both gateways.
MaxEvaluateRequests == 1

\* several keywords in mixed case, the default length limit, the phone and
\* the secret redactor
DocKeywords ==
    [banned_keywords |-> << <<"K","i","l","l">>, <<"b","o","m","b">>, <<"h","i">> >>,
     redaction_rules |-> [redact_phone_numbers |-> TRUE, redact_secrets |-> TRUE]]

\* a threshold the table of cos_sim reaches, and the e-mail redactor
DocThreshold ==
    [banned_keywords |-> << <<"k","i","l","l">> >>,
     redaction_rules |-> [redact_emails |-> TRUE],
     semantic_blocking |->
         [enabled |-> TRUE, threshold |-> 75,
          banned_phrases |-> << <<"a","@","b",".","c">>, <<"z","z">> >>]]

EvaluateDocs == {DocA, DocB, DocC, DocKeywords, DocThreshold}

\* a prompt of n characters without keyword, phrase or pattern
Filler(n) == [i \in 1..n |-> "x"]

PromptKillHim == <<"K","I","L","L"," ","h","i","m">>
PromptOnLimit == <<"h","e","l","l","o"," ","a","@","b",".","c","d">>
PromptOverLimit == <<"h","e","l","l","o"," ","a","@","b",".","c","d","e">>
PromptPhoneSecret ==
    <<"1","2","3","4","5","6","7","8","9","0","S","E","C","R","E","T","{","x","}">>

\* longer than the 12 characters of DocA, with its keyword
PromptKillLong ==
    <<"k","i","l","l"," ","t","h","e","m"," ","a","l","l"," ","n","o","w">>

EvaluatePrompts ==
    Prompts \cup {PromptKillHim, PromptOnLimit, PromptOverLimit, PromptPhoneSecret,
                  PromptKillLong,
                  Filler(DEFAULT_MAX_CHARS), Filler(DEFAULT_MAX_CHARS + 1)}

InitEvaluate == InitWith(MaxEvaluateRequests)

NextEvaluate ==
    \/ \E doc \in EvaluateDocs, model \in AllModels : Startup(FileWith(doc), model)
    \/ \E p \in EvaluatePrompts :
           HttpMitigate(BodyObject([prompt |-> p, user_id |-> UserOne]))
    \/ Mitigating
    \/ HttpClose
    \/ \E p \in EvaluatePrompts : IcapReceive(LineWithMarker(p))
    \/ IcapHandling

SpecEvaluate == InitEvaluate /\ [][NextEvaluate]_vars

\* Connections on the two gateways: each server loop accepts a connection,
\* whose request may be late, may fail or may be served.
MaxConnectionRequests == 2

ConnectionBodies ==
    {BodyList, BodyObject([prompt |-> PromptEmail, user_id |-> UserOne])}

InitConnections == InitWith(MaxConnectionRequests)

NextConnections ==
    \/ \E model \in {ModelWorks, ModelRaises} : Startup(FileWith(DocC), model)
    \/ HttpAccept
    \/ \E body \in ConnectionBodies : HttpMitigate(body)
    \/ Mitigating
    \/ HttpClose
    \/ IcapAccept
    \/ \E line \in IcapLines : IcapReceive(line)
    \/ IcapHandling

SpecConnections == InitConnections /\ [][NextConnections]_vars

\* ------------------------------------------------------------- properties

Actions == {"allow", "block", "redact"}

Min(a, b) == IF a <= b THEN a ELSE b

\* the HTTP thread holds the outcome of an evaluate_prompt call
HttpEvaluated == http.request = "mitigate" /\ ~IsNone(http.result)

\* the ICAP thread holds the outcome of an evaluate_prompt call
IcapEvaluated == ~IsNone(icap.result)

\* C1: for every prompt and every configuration load_policy accepted,
\* evaluate_prompt returns one decision whose action is allow, block or
\* redact: an evaluation on the HTTP thread that ran on the policy object as
\* an accepted load left it holds such a decision, never an exception.
C1_EvaluateReturnsOneDecision ==
    HttpEvaluated /\ ~IsNone(http.under)
        => IsDecision(http.result) /\ http.result.action \in Actions

\* the hard block conditions of a prompt under rules
TooLong(rules, prompt) ==
    Len(prompt) > Get(rules, "max_prompt_chars", DEFAULT_MAX_CHARS)

HasBannedKeyword(rules, prompt) ==
    LET banned_keywords == Get(rules, "banned_keywords", <<>>)
    IN  \E i \in DOMAIN banned_keywords :
            Contains(Lower(prompt), Lower(banned_keywords[i]))

HardBlock(rules, prompt) ==
    IsDict(rules) /\ (TooLong(rules, prompt) \/ HasBannedKeyword(rules, prompt))

\* the prompt holds a pattern of a registered redactor
HasPii(redactors, prompt) ==
    \E k \in DOMAIN redactors : redact_text(redactors[k], prompt) # prompt

\* C2: a prompt that triggers a hard block condition (too long, or a banned
\* keyword) and holds a pattern of an enabled redactor is blocked, never
\* redacted: so for every prompt on the policy object as it is, and so for
\* the decision the HTTP thread holds.
C2_BlockBeforeRedact ==
    /\ \A prompt \in Prompts :
           HardBlock(policy.rules, prompt) /\ HasPii(policy.redactors, prompt)
               => LET decision == evaluate_prompt(policy, prompt)
                  IN  IsDecision(decision) /\ decision.action = "block"
    /\ (/\ HttpEvaluated
        /\ HardBlock(policy.rules, http.prompt)
        /\ HasPii(policy.redactors, http.prompt))
           => IsDecision(http.result) /\ http.result.action = "block"

\* C2's case: the HTTP thread decided a prompt with a banned keyword and an
\* e-mail address under rules with the e-mail redactor on
C2_Witness ==
    /\ HttpEvaluated
    /\ http.prompt = PromptKillEmail
    /\ HasBannedKeyword(policy.rules, http.prompt)
    /\ ~TooLong(policy.rules, http.prompt)
    /\ HasPii(policy.redactors, http.prompt)
    /\ http.result.action = "block"

\* POST /reload was answered 500
ReloadFailedNow ==
    http.request = "reload" /\ http.pc = "responded" /\ IsHttpStatus(http.response, 500)

\* C3: when a reload fails and POST /reload answers 500, the rules, the
\* redactor set and the semantic blocker are as they were before the
\* request, whatever made the load fail.
C3_FailedReloadChangesNothing == ReloadFailedNow => policy = http.before

\* C4: a configuration without banned_keywords is never accepted: the rules
\* of the policy object a load_policy call returned from have the key.
C4_AcceptedRulesHaveBannedKeywords ==
    ~IsNone(accepted)
        => IsDict(accepted.policy.rules)
           /\ "banned_keywords" \in DOMAIN accepted.policy.rules

\* C5: an evaluation on the ICAP thread that runs while the HTTP thread
\* reloads ends as evaluate_prompt ends on the complete old or the complete
\* new configuration. (Set aside are the evaluations that began on an object
\* a failed load left behind or is leaving behind, and the configurations
\* without banned_keywords.)
C5_ReloadIsAtomic ==
    (/\ IcapEvaluated
     /\ ~icap.tainted
     /\ \A c \in icap.snapshots : "banned_keywords" \in DOMAIN c.policy.rules)
        => \E c \in icap.snapshots : icap.result = evaluate_prompt(c.policy, icap.prompt)

AwaitingLog ==
    (IF http.pc = "log" THEN 1 ELSE 0) + (IF icap.pc = "log" THEN 1 ELSE 0)

\* C7: every evaluation that returned a decision appends one entry, on
\* either gateway and for every action: the appends so far are the
\* evaluations so far less those about to append, and below capacity that
\* is the length of the history.
C7_OneEntryPerEvaluation ==
    /\ Len(appended) = evaluated - AwaitingLog
    /\ evaluated < HISTORY_MAXLEN => Len(history) = evaluated - AwaitingLog
    /\ http.pc = "respond" =>
           \E i \in DOMAIN appended :
               appended[i] = log_entry(http.user_id, http.prompt, http.result)
    /\ icap.pc = "respond" =>
           \E i \in DOMAIN appended :
               appended[i] = log_entry(ICAP_USER, icap.prompt, icap.result)

\* C7's case: two evaluations with the same outcome, one on each gateway,
\* have both appended
C7_Witness ==
    /\ evaluated = 2
    /\ Len(history) = 2
    /\ history[1].action = "block"
    /\ history[1].prompt_in = history[2].prompt_in
    /\ history[1].action = history[2].action
    /\ history[1].user_id = ICAP_USER
    /\ history[2].user_id = UserOne

\* C8: a malformed POST /mitigate is answered 400.
C8_MalformedIsAnswered400 ==
    http.request = "mitigate" /\ http.pc = "responded" /\ http.input \in MalformedBodies
        => IsHttpStatus(http.response, 400)

\* GET /history was answered
HistoryAnswered == http.request = "history" /\ http.pc = "responded"

\* the n GET /history asks for
Requested(query) ==
    IF query.n = "int" /\ query.value > 0 THEN query.value ELSE DEFAULT_HISTORY_LIMIT

Configured(rules) ==
    {load_policy(BlankPolicy, FileWith(rules), model).policy :
        model \in Models}

\* the evaluation began after the reload that c records had returned, on the
\* object as that reload left it
AfterReload(c) == ~IsNone(c) /\ c.by = "reload"

\* C10: an evaluation that starts after a successful POST /reload, on
\* either gateway, is decided by the configuration of the rules that
\* reload read.
C10_ReloadReachesBothGateways ==
    /\ HttpEvaluated /\ AfterReload(http.under)
           => \E c \in Configured(http.under.policy.rules) :
                  http.result = evaluate_prompt(c, http.prompt)
    /\ \A a \in icap.snapshots :
           IcapEvaluated /\ ~icap.tainted /\ ~icap.overlapped /\ AfterReload(a)
               => \E c \in Configured(a.policy.rules) :
                      icap.result = evaluate_prompt(c, icap.prompt)

\* C10's case: after a reload from DocA to DocB, "hi" is blocked on the
\* ICAP gateway as DocB's banned keyword
C10_Witness ==
    /\ IcapEvaluated /\ ~icap.tainted /\ ~icap.overlapped
    /\ icap.snapshots = {accepted} /\ AfterReload(accepted)
    /\ accepted.policy.rules = DocB
    /\ icap.prompt = PromptHi
    /\ IsDecision(icap.result) /\ icap.result.action = "block"

\* the prompts evaluated and what evaluate_prompt ended with, on either
\* gateway (the ICAP thread's while no load ran beside it)
Evaluations ==
    (IF HttpEvaluated THEN {[prompt |-> http.prompt, result |-> http.result]} ELSE {})
    \cup (IF IcapEvaluated /\ ~icap.overlapped /\ ~icap.tainted
          THEN {[prompt |-> icap.prompt, result |-> icap.result]}
          ELSE {})

\* the configured maximum length
Limit(rules) ==
    IF "max_prompt_chars" \in DOMAIN rules THEN rules["max_prompt_chars"] ELSE 200

\* the decision is the length check's
IsTooLong(result) == IsDecision(result) /\ "max_prompt_chars" \in DOMAIN result.reason

\* C12: a prompt of a length up to max_prompt_chars is not blocked by the
\* length check, and a longer one, so one of max_prompt_chars + 1, is
\* blocked with the too-long reason naming the maximum, 200 when the key is
\* absent.
C12_LengthBoundary ==
    \A e \in Evaluations :
        IsDict(policy.rules) =>
            /\ Len(e.prompt) <= Limit(policy.rules) => ~IsTooLong(e.result)
            /\ Len(e.prompt) > Limit(policy.rules)
                   => e.result = Decision("block", e.prompt,
                                          ReasonTooLong(Limit(policy.rules)))

\* C12's case: no max_prompt_chars in the rules and a prompt of 201
\* characters blocked on the HTTP gateway
C12_Witness ==
    /\ HttpEvaluated
    /\ "max_prompt_chars" \notin DOMAIN policy.rules
    /\ Len(http.prompt) = 201
    /\ IsTooLong(http.result)
    /\ http.result.reason.max_prompt_chars = 200

\* keyword occurs in prompt as a substring, ignoring case
OccursIn(keyword, prompt) ==
    \E at \in 0..(Len(prompt) - Len(keyword)) :
        \A j \in 1..Len(keyword) : LowerChar(prompt[at + j]) = LowerChar(keyword[j])

\* the decision is the keyword check's
IsKeywordBlock(result) ==
    IsDecision(result) /\ "found_blocked_keywords" \in DOMAIN result.reason

\* C13: a prompt within the length limit is blocked by keywords exactly when
\* a banned keyword occurs in it ignoring case, and the reason then lists
\* every keyword that occurs, each once.
C13_KeywordsIgnoreCase ==
    \A e \in Evaluations :
        (/\ IsDict(policy.rules)
         /\ "banned_keywords" \in DOMAIN policy.rules
         /\ Len(e.prompt) <= Limit(policy.rules))
            => LET banned_keywords == policy.rules["banned_keywords"]
                   Matched == {i \in DOMAIN banned_keywords :
                                   OccursIn(banned_keywords[i], e.prompt)}
               IN  /\ IsKeywordBlock(e.result) <=> Matched # {}
                   /\ IsKeywordBlock(e.result) =>
                          LET listed == e.result.reason.found_blocked_keywords
                          IN  /\ e.result.action = "block"
                              /\ Len(listed) = Cardinality(Matched)
                              /\ \A i \in Matched :
                                     \E k \in DOMAIN listed : listed[k] = banned_keywords[i]

\* C13's case: "KILL him" meets the keywords "Kill" and "hi" of three, and
\* both are listed
C13_Witness ==
    /\ IcapEvaluated
    /\ icap.prompt = PromptKillHim
    /\ policy.rules = DocKeywords
    /\ IsKeywordBlock(icap.result)
    /\ Len(icap.result.reason.found_blocked_keywords) = 2

\* C11: the ICAP adapter answers an evaluated line with 204 and no body
\* exactly when the decision is allow, with 200 and the decision's prompt_out
\* exactly when it is redact or block, and with the 500 line when handling
\* the line raised.
C11_IcapResponseFollowsDecision ==
    icap.pc = "responded" =>
        IF IsRaised(icap.result)
        THEN icap.response = [line |-> "500 Internal Server Error"]
        ELSE /\ IsDecision(icap.result)
             /\ icap.response = [line |-> "ICAP/1.0 204 No Content"]
                    <=> icap.result.action = "allow"
             /\ icap.response = [line |-> "ICAP/1.0 200 OK",
                                 body |-> icap.result.prompt_out]
                    <=> icap.result.action \in {"redact", "block"}

\* C11's case: a blocked line was answered with 200 and the unchanged prompt
C11_Witness ==
    /\ icap.pc = "responded"
    /\ IsDecision(icap.result)
    /\ icap.result.action = "block"
    /\ icap.response = [line |-> "ICAP/1.0 200 OK", body |-> icap.prompt]

\* the provider of the active semantic blocker is missing or errors
ProviderDown ==
    /\ ~IsNone(policy.semantic_blocker)
    /\ policy.semantic_blocker.model \in {ModelNone, ModelRaises}

\* C14: the semantic gate fails open: with semantic blocking enabled and the
\* embedding provider unavailable or raising, at load time or during a
\* check, every evaluation still returns a decision, and never a semantic
\* block.
C14_SemanticGateFailsOpen ==
    \A e \in Evaluations :
        ProviderDown => /\ IsDecision(e.result)
                        /\ "score" \notin DOMAIN e.result.reason

\* the greatest similarity of prompt to a banned phrase of blocker
MaxSimilarity(blocker, prompt) ==
    LET Scores == {cos_sim(prompt, blocker.banned_phrases[i]) :
                       i \in DOMAIN blocker.banned_phrases}
    IN  CHOOSE s \in Scores : \A t \in Scores : t <= s

\* semantic blocking is enabled with a working provider and prompt triggers
\* no hard block
SemanticDecides(prompt) ==
    /\ ~HardBlock(policy.rules, prompt)
    /\ ~IsNone(policy.semantic_blocker)
    /\ policy.semantic_blocker.model = ModelWorks
    /\ policy.semantic_blocker.banned_phrases # <<>>

\* C15: with semantic blocking enabled and no hard block, a prompt whose
\* greatest similarity is above the threshold is blocked with prompt_out the
\* original prompt, whatever the redactors would replace; at or below the
\* threshold it is not blocked, and is redacted if a redactor changes it and
\* allowed otherwise.
C15_SemanticThresholdIsStrict ==
    \A e \in Evaluations :
        SemanticDecides(e.prompt) =>
            LET score == MaxSimilarity(policy.semantic_blocker, e.prompt)
            IN  IF score > policy.semantic_blocker.threshold
                THEN /\ IsDecision(e.result)
                     /\ e.result.action = "block"
                     /\ e.result.prompt_out = e.prompt
                     /\ e.result.reason = ReasonSemantic(score)
                ELSE /\ IsDecision(e.result)
                     /\ e.result.action # "block"
                     /\ e.result.action = "redact" <=> HasPii(policy.redactors, e.prompt)

\* C15's case: the address "a@b.c" is a banned phrase and the e-mail redactor
\* is on: the prompt is blocked and kept as it is
C15_Witness ==
    /\ HttpEvaluated
    /\ http.prompt = PromptEmail
    /\ SemanticDecides(http.prompt)
    /\ HasPii(policy.redactors, http.prompt)
    /\ IsDecision(http.result)
    /\ http.result.action = "block"
    /\ http.result.prompt_out = PromptEmail

\* C16: redaction is idempotent: the pipeline applied to its own output
\* changes nothing, so the prompt_out of a redact decision, evaluated under
\* the same configuration, is never redacted again.
C16_RedactionIsIdempotent ==
    \A e \in Evaluations :
        (IsDecision(e.result) /\ e.result.action = "redact") =>
            LET again == evaluate_prompt(policy, e.result.prompt_out)
            IN  /\ IsNone(apply_redaction(policy.redactors, e.result.prompt_out))
                /\ IsDecision(again) => again.action # "redact"

\* text after the redactors k.. of the pipeline, in order
RECURSIVE Pipeline(_, _, _)
Pipeline(redactors, k, text) ==
    IF k > Len(redactors) THEN text
    ELSE Pipeline(redactors, k + 1, redact_text(redactors[k], text))

\* C20: a block or allow decision carries the prompt as it came in; a redact
\* decision carries the pipeline's text, which differs from the prompt; and a
\* prompt is allowed only if no enabled redactor changes it.
C20_PromptOutFollowsAction ==
    \A e \in Evaluations :
        IsDecision(e.result) =>
            /\ e.result.action \in {"block", "allow"} => e.result.prompt_out = e.prompt
            /\ e.result.action = "redact"
                   => /\ e.result.prompt_out = Pipeline(policy.redactors, 1, e.prompt)
                      /\ e.result.prompt_out # e.prompt
            /\ e.result.action = "allow" => ~HasPii(policy.redactors, e.prompt)

\* C20's case: "hello a@b.cd" was redacted to "hello <EMAIL>"
C20_Witness ==
    /\ IcapEvaluated
    /\ icap.prompt = PromptOnLimit
    /\ IsDecision(icap.result)
    /\ icap.result.action = "redact"
    /\ icap.result.prompt_out = <<"h","e","l","l","o"," ","<","E","M","A","I","L",">">>

\* doc has the shape of the policy configuration: an object with
\* banned_keywords whose redaction_rules and semantic_blocking are objects
SchemaValid(doc) ==
    /\ IsDict(doc)
    /\ "banned_keywords" \in DOMAIN doc
    /\ IsDict(Get(doc, "redaction_rules", EmptyDict))
    /\ IsDict(Get(doc, "semantic_blocking", EmptyDict))

\* C19: startup is fail-closed: while the process is not serving no gateway
\* has taken a request, and the process serves on its initial load only if
\* that load read a policy file of a valid schema.
C19_StartupIsFailClosed ==
    /\ phase # "serving" => http = HttpIdle /\ icap = IcapIdle /\ appended = <<>>
    /\ (phase = "serving" /\ accepted.by = "startup")
           => SchemaValid(accepted.policy.rules)

\* the entries ever appended to the history
Logged == {appended[i] : i \in DOMAIN appended}

\* C17: the decision of POST /mitigate depends only on the prompt and the
\* active configuration: the answer carries the action, prompt_out and reason
\* that evaluate_prompt gives for the prompt alone, and any two requests
\* logged with the same prompt, whatever their user_id, their other fields,
\* their gateway and the history at their time, got the same action and
\* reason.
C17_DecisionDependsOnPromptOnly ==
    /\ (http.request = "mitigate" /\ IsHttpStatus(http.response, 200))
           => LET decision == evaluate_prompt(policy, http.input.data["prompt"])
              IN  /\ http.response.body.action = decision.action
                  /\ http.response.body.prompt_out = decision.prompt_out
                  /\ http.response.body.reason = decision.reason
    /\ \A a, b \in Logged :
           a.prompt_in = b.prompt_in => a.action = b.action /\ a.reason = b.reason

\* C17's case: "hi" was sent by u1 and by u2, who also sent model, purpose
\* and headers, and the second request has been answered
C17_Witness ==
    /\ \E a, b \in Logged :
           a.prompt_in = PromptHi /\ b.prompt_in = PromptHi
               /\ a.user_id = UserOne /\ b.user_id = UserTwo
    /\ http.request = "mitigate"
    /\ IsHttpStatus(http.response, 200)
    /\ "headers" \in DOMAIN http.input.data
    /\ Len(history) = HISTORY_MAXLEN

\* a connection was accepted and its request has not arrived
HttpStalled == http.pc = "accepted"

IcapStalled == icap.pc = "accepted"

\* C18: each gateway handles its connections concurrently: while a
\* connection of a gateway is stalled, that gateway can accept another
\* connection, and so can the other gateway unless it is busy itself; and
\* after a connection failed its gateway goes on to the next one.
C18_ConnectionsAreConcurrent ==
    /\ HttpStalled => ENABLED HttpAccept
    /\ IcapStalled => ENABLED IcapAccept
    /\ (HttpStalled /\ icap.pc = "idle") => ENABLED IcapAccept
    /\ (IcapStalled /\ http.pc = "idle") => ENABLED HttpAccept
    /\ (http.pc = "responded" /\ http.response = NoResponse) => ENABLED HttpClose
    /\ (icap.pc = "responded" /\ icap.response = IcapError) => ENABLED IcapClose

\* a banned keyword of rules occurs in prompt
KeywordOccurs(rules, prompt) ==
    /\ "banned_keywords" \in DOMAIN rules
    /\ \E i \in DOMAIN rules["banned_keywords"] :
           OccursIn(rules["banned_keywords"][i], prompt)

\* C21: the block gate checks the length before the keywords: a prompt longer
\* than max_prompt_chars that also holds a banned keyword is blocked with the
\* length reason naming the configured maximum, never with the keyword
\* reason.
C21_LengthBeforeKeywords ==
    \A e \in Evaluations :
        (/\ IsDict(policy.rules)
         /\ Len(e.prompt) > Limit(policy.rules)
         /\ KeywordOccurs(policy.rules, e.prompt))
            => /\ IsDecision(e.result)
               /\ e.result.action = "block"
               /\ e.result.reason = ReasonTooLong(Limit(policy.rules))
               /\ ~IsKeywordBlock(e.result)

\* C21's case: "kill them all now" under a limit of 12 and the keyword
\* "kill", blocked for its length
C21_Witness ==
    /\ HttpEvaluated
    /\ http.prompt = PromptKillLong
    /\ Limit(policy.rules) = 12
    /\ KeywordOccurs(policy.rules, http.prompt)
    /\ IsTooLong(http.result)

\* the HTTP client has the decision of its POST /mitigate
HttpAnswered == http.request = "mitigate" /\ IsHttpStatus(http.response, 200)

\* the ICAP client has the 204 or the 200 answer for its line
IcapAnswered ==
    /\ icap.pc = "responded"
    /\ "line" \in DOMAIN icap.response
    /\ icap.response.line \in {"ICAP/1.0 204 No Content", "ICAP/1.0 200 OK"}

\* C22: on both gateways a request is evaluated, then logged, then answered:
\* when the client has the decision, an entry with the prompt as it was
\* sent, the decision's action and reason and the caller's user_id (over
\* ICAP the fixed "icap_client") has been appended.
C22_LoggedBeforeAnswered ==
    /\ HttpAnswered =>
           /\ IsDecision(http.result)
           /\ \E i \in DOMAIN appended :
                  appended[i] = [user_id |-> http.input.data["user_id"],
                                 prompt_in |-> http.input.data["prompt"],
                                 action |-> http.response.body.action,
                                 reason |-> http.response.body.reason]
    /\ IcapAnswered =>
           /\ IsDecision(icap.result)
           /\ \E i \in DOMAIN appended :
                  appended[i] = [user_id |-> <<"i","c","a","p","_","c","l","i","e","n","t">>,
                                 prompt_in |-> icap.prompt,
                                 action |-> icap.result.action,
                                 reason |-> icap.result.reason]

\* C22's case: "a@b.c" was answered redacted over HTTP, and the newest entry
\* of the history holds the address as it was sent
C22_Witness ==
    /\ HttpAnswered
    /\ http.response.body.action = "redact"
    /\ http.response.body.prompt_out # PromptEmail
    /\ history # <<>>
    /\ history[Len(history)].prompt_in = PromptEmail
    /\ history[Len(history)].user_id = UserOne

\* a step of load_policy: the load at import, or a step of POST /reload
LoadStep == phase = "boot" \/ http'.request = "reload"

\* a step of _log_to_history on either thread
LogStep ==
    \/ http.pc = "log" /\ http'.pc = "respond"
    \/ icap.pc = "log" /\ icap'.pc = "respond"

\* a step of evaluate_prompt on either thread
EvaluateStep ==
    \/ http.request # "mitigate" /\ http'.request = "mitigate"
    \/ /\ icap'.pc # icap.pc \/ icap'.iter_pos # icap.iter_pos
       /\ icap.pc \in {"idle", "accepted", "check_keywords", "semantic_test",
                        "semantic_call", "redact_iter", "redact_next"}

\* C23: evaluate_prompt changes no shared state: its steps leave the rules,
\* the redactors, the semantic blocker and the history as they are; the
\* policy object changes only in steps of load_policy and the history only
\* in steps of _log_to_history.
C23_EvaluationChangesNothing ==
    [][/\ EvaluateStep => policy' = policy /\ history' = history
       /\ policy' # policy => LoadStep
       /\ history' # history => LogStep]_vars

\* C23's case: an evaluation on the ICAP thread went through the semantic
\* check and the redactors and holds its decision, nothing is logged yet and
\* the policy object is as the load left it
C23_Witness ==
    /\ icap.pc = "log"
    /\ icap.result.action = "redact"
    /\ ~icap.overlapped
    /\ ~IsNone(policy.semantic_blocker)
    /\ policy = accepted.policy
    /\ history = <<>>

\* C24: every ICAP connection that delivered a line has got one of the three
\* responses (204, 200 with the text, the 500 line) when its handler has
\* finished, a connection whose line is empty or only whitespace included.
C24_IcapAlwaysResponds ==
    icap.pc = "responded" =>
        /\ "line" \in DOMAIN icap.response
        /\ icap.response.line \in {"ICAP/1.0 204 No Content", "ICAP/1.0 200 OK",
                                    "500 Internal Server Error"}

====
